---- MODULE Spec2Model ----
(***************************************************************************)
(* A model of src/repo.rs: the Repository handle of git2-rs, its factory   *)
(* operations, the lifetime binding of the child handles it returns and    *)
(* the operations it forwards to the native engine, libgit2.               *)
(*                                                                         *)
(* The wrapper (open, init_, from_raw, revparse, commit, reset, ...) is    *)
(* translated from repo.rs.  The engine functions (git_...) are not part  *)
(* of repo.rs; they are modelled from their documented contract.           *)
(***************************************************************************)
EXTENDS Integers, Sequences, FiniteSets, TLC

\* ------------------------------------------------------------------ bounds
MaxHandles == 2      \* Repository handles created in one run
MaxChildren == 2     \* child handles created in one run
MaxCommits == 3      \* commit objects in the object database

\* --------------------------------------------------------------- universes
NullPtr == 0
HandleIds == 1..MaxHandles
CommitIds == 1..MaxCommits
TreeIds == {11, 12}
BlobIds == {21}
FsPaths == {"D", "missing"}
RefNames == {"HEAD", "refs/heads/master", "refs/heads/topic"}
BranchNames == {"master", "topic"}
RevSpecs == {"HEAD", "topic", "topic..HEAD"}

\* bits of git_revparse_mode_t
GIT_REVPARSE_SINGLE == 1
GIT_REVPARSE_RANGE == 2

\* engine status codes
GIT_OK == 0
GIT_ERROR == -1
GIT_ENOTFOUND == -3
GIT_EEXISTS == -4

VARIABLES
    disk,       \* what directory "D" holds: "none", "normal" or "bare"
    refs,       \* reference name -> [oid, sym]
    commits,    \* commit id -> [present, tree, parents]
    index,      \* file -> content id (0 = no entry)
    workdir,    \* file -> content id (0 = no file)
    repostate,  \* the operation in progress in "D", as the engine numbers it
    namespace,  \* engine repository pointer -> its namespace (bytes or none)
    submods,    \* the submodule names of "D", in the order the engine walks them
    repos,      \* handle id -> [st, raw]: the Repository values of the program
    children,   \* set of live child handles [cid, kind, raw, repo, bound]
    nextChild,  \* number of child handles created so far
    nextPtr,    \* number of engine repository instances allocated so far
    freeCalls,  \* engine repository pointer -> number of git_repository_free calls
    last,       \* the last call and what it returned
    eng,        \* what the engine reported to the last call: [rc, out]
    panicked,   \* the task failed (fail! / assert!) and was unwound
    breach      \* the engine may report success and leave an output null

vars == <<disk, refs, commits, index, workdir, repostate, namespace, submods, repos, children, nextChild,
          nextPtr, freeCalls, last, eng, panicked, breach>>

gitdir == <<repostate, namespace, submods>>
content == <<disk, refs, commits, index, workdir, gitdir>>
handles == <<repos, children, nextChild, nextPtr, freeCalls>>

\* a value of the enum RepositoryState, and a bool
RepositoryState(name) == [state |-> name]
Bool(b) == [bool |-> b]

\* an optional value
None == [some |-> FALSE, val |-> <<>>]
Some(v) == [some |-> TRUE, val |-> v]

\* the engine's numbers for the operation in progress
GIT_REPOSITORY_STATE_NONE == 0
GIT_REPOSITORY_STATE_MERGE == 1
GIT_REPOSITORY_STATE_REVERT == 2
GIT_REPOSITORY_STATE_CHERRYPICK == 3
GIT_REPOSITORY_STATE_BISECT == 4
GIT_REPOSITORY_STATE_REBASE == 5
GIT_REPOSITORY_STATE_REBASE_INTERACTIVE == 6
GIT_REPOSITORY_STATE_REBASE_MERGE == 7
GIT_REPOSITORY_STATE_APPLY_MAILBOX == 8
GIT_REPOSITORY_STATE_APPLY_MAILBOX_OR_REBASE == 9

\* ------------------------------------------------------ repository content
Files == {"a", "b", "junk"}

NoRef == [oid |-> 0, sym |-> ""]
DirectRef(oid) == [oid |-> oid, sym |-> ""]
SymbolicRef(name) == [oid |-> 0, sym |-> name]

NoCommit == [present |-> FALSE, tree |-> 0, parents |-> <<>>]
CommitObj(tree, parents) == [present |-> TRUE, tree |-> tree, parents |-> parents]

\* the content of the two trees of the object database, file -> content id
TreeContent(t) ==
    IF t = 11 THEN [f \in Files |-> IF f = "a" THEN 1 ELSE 0]
    ELSE [f \in Files |-> IF f = "a" THEN 2 ELSE IF f = "b" THEN 1 ELSE 0]

\* a repository fresh from git_repository_init: HEAD names an unborn branch
EmptyRefs ==
    [n \in RefNames |-> IF n = "HEAD" THEN SymbolicRef("refs/heads/master") ELSE NoRef]
EmptyCommits == [c \in CommitIds |-> NoCommit]
EmptyIndex == [f \in Files |-> 0]

\* a repository with one commit on master
OneCommitRefs ==
    [n \in RefNames |->
        IF n = "HEAD" THEN SymbolicRef("refs/heads/master")
        ELSE IF n = "refs/heads/master" THEN DirectRef(1) ELSE NoRef]
OneCommit == [c \in CommitIds |-> IF c = 1 THEN CommitObj(11, <<>>) ELSE NoCommit]

\* ------------------------------------------------------------ result values
NoChild == [cid |-> 0, kind |-> "none", raw |-> NullPtr, to |-> <<>>,
            repo |-> 0, origin |-> 0]
NoHandle == [st |-> "none", raw |-> NullPtr]

\* the arguments of a call: a revision spec, a reference name, the name a
\* symbolic reference is to point at, object ids, force, the kind of reset
Args(spec, name, target, oids, force, kind) ==
    [spec |-> spec, name |-> name, target |-> target, oids |-> oids,
     force |-> force, kind |-> kind]
NoArgs == Args("", "", "", <<>>, FALSE, "")
SpecArg(spec) == Args(spec, "", "", <<>>, FALSE, "")

\* what a call gave back: out is "ok", "err" or "abort"; val is the handle
\* returned (NoChild when there is none); oid is the Oid returned (0 if none)
Ret(op, out, val, oid, args) ==
    [op |-> op, out |-> out, val |-> val, oid |-> oid, args |-> args]
NoRet == Ret("none", "none", NoChild, 0, NoArgs)

\* what the engine reported: status, output pointer and, for git_revparse,
\* the flags and the to pointer of the git_revspec (out is its from)
EngRev(rc, out, flags, to) == [rc |-> rc, out |-> out, flags |-> flags, to |-> to]
EngRet(rc, out) == EngRev(rc, out, 0, NullPtr)
NoEng == EngRet(1, NullPtr)

\* try_call!: a negative status leaves the function with Err(last_error())
try_call(rc) == IF rc < 0 THEN "err" ELSE "ok"

\* ------------------------------------------------------------------ engine
\* Every engine function gives the set of results the engine may produce.
\* With breach the engine may also report success and leave its output null.
EngineOut(ptr) ==
    {EngRet(GIT_OK, ptr)} \cup (IF breach THEN {EngRet(GIT_OK, NullPtr)} ELSE {})
EngineErr(rc) == {EngRet(rc, NullPtr)}

git_repository_open(path) ==
    IF path = "D" /\ disk # "none" THEN EngineOut(nextPtr + 1)
    ELSE EngineErr(GIT_ENOTFOUND)

\* creates the repository when the directory holds none; the directory must exist
git_repository_init(path, bare) ==
    IF path = "D" THEN EngineOut(nextPtr + 1) ELSE EngineErr(GIT_ERROR)

DiskAfterInit(path, bare) ==
    IF path = "D" /\ disk = "none" THEN (IF bare THEN "bare" ELSE "normal") ELSE disk

\* ------------------------------------------------------ Repository handles
\* Repository::from_raw: takes ownership of the pointer, whatever it is
from_raw(ptr) == [st |-> "live", raw |-> ptr]

\* Repository::open
open(r) ==
    IF try_call(r.rc) = "err" THEN [out |-> "err", handle |-> NoHandle]
    ELSE [out |-> "ok", handle |-> from_raw(r.out)]

\* Repository::init_
init_(r) ==
    IF try_call(r.rc) = "err" THEN [out |-> "err", handle |-> NoHandle]
    ELSE [out |-> "ok", handle |-> from_raw(r.out)]

FreeSlot == CHOOSE h \in HandleIds : repos[h].st = "none" /\ \A g \in HandleIds : repos[g].st = "none" => h <= g

\* the handle value a factory of Repository returned, seen as a result value
HandleVal(h, handle) ==
    [cid |-> 0, kind |-> "Repository", raw |-> handle.raw, to |-> <<>>,
     repo |-> h, origin |-> h]

\* the program receives the result of open / init_
TakeHandle(op, res, r) ==
    /\ eng' = EngRet(r.rc, r.out)
    /\ IF res.out = "ok"
       THEN /\ repos' = [repos EXCEPT ![FreeSlot] = res.handle]
            /\ nextPtr' = IF r.out # NullPtr THEN nextPtr + 1 ELSE nextPtr
            /\ last' = Ret(op, "ok", HandleVal(FreeSlot, res.handle), 0, NoArgs)
       ELSE /\ UNCHANGED <<repos, nextPtr>>
            /\ last' = Ret(op, res.out, NoChild, 0, NoArgs)

Open(path) ==
    /\ ~panicked
    /\ \E h \in HandleIds : repos[h].st = "none"
    /\ \E r \in git_repository_open(path) : TakeHandle("open", open(r), r)
    /\ UNCHANGED <<content, children, nextChild, freeCalls, panicked, breach>>

Init_(path, bare) ==
    /\ ~panicked
    /\ \E h \in HandleIds : repos[h].st = "none"
    /\ \E r \in git_repository_init(path, bare) :
          /\ TakeHandle(IF bare THEN "init_bare" ELSE "init", init_(r), r)
          /\ disk' = IF r.rc = GIT_OK THEN DiskAfterInit(path, bare) ELSE disk
    /\ UNCHANGED <<gitdir, refs, commits, index, workdir, children, nextChild,
                   freeCalls, panicked, breach>>

\* git_repository_free, called by drop
git_repository_free(ptr) ==
    IF ptr = NullPtr THEN freeCalls
    ELSE [freeCalls EXCEPT ![ptr] = freeCalls[ptr] + 1]

\* impl Drop for Repository.  A Repository goes out of scope only when no
\* value borrowing it is alive: the children made by X::from_raw(self, raw)
\* borrow the Repository for their whole life.
Borrowed(h) == \E c \in children : c.repo = h

\* drop forgetting to release the engine repository
DropRepo_leak(h) ==
    /\ ~panicked
    /\ repos[h].st = "live"
    /\ ~Borrowed(h)
    /\ repos' = [repos EXCEPT ![h].st = "dropped"]
    /\ freeCalls' = freeCalls
    /\ last' = Ret("drop", "ok", NoChild, 0, NoArgs)
    /\ eng' = NoEng
    /\ UNCHANGED <<content, children, nextChild, nextPtr, panicked, breach>>

DropRepo(h) ==
    /\ ~panicked
    /\ repos[h].st = "live"
    /\ ~Borrowed(h)
    /\ repos' = [repos EXCEPT ![h].st = "dropped"]
    /\ freeCalls' = git_repository_free(repos[h].raw)
    /\ last' = Ret("drop", "ok", NoChild, 0, NoArgs)
    /\ eng' = NoEng
    /\ UNCHANGED <<content, children, nextChild, nextPtr, panicked, breach>>

\* ------------------------------------------------- engine: lookups, revparse
RefPtr == 31
IndexPtr == 41
ConfigPtr == 42

MaxNesting == Cardinality(RefNames) + 1

RECURSIVE ResolveRef(_, _, _)
\* git_reference_lookup_resolved: follow symbolic references down to an oid;
\* 0 when the chain ends at a missing reference or is too deep
ResolveRef(rf, name, depth) ==
    IF depth = 0 THEN 0
    ELSE IF rf[name].sym # "" THEN ResolveRef(rf, rf[name].sym, depth - 1)
    ELSE rf[name].oid

Resolved(name) == ResolveRef(refs, name, MaxNesting)

\* the address of the git_object loaded for an oid, and git_object_id
ObjPtr(oid) == 100 + oid
git_object_id(ptr) == ptr - 100

HasCommit(oid) == oid \in CommitIds /\ commits[oid].present

git_blob_lookup(oid) ==
    IF oid \in BlobIds THEN EngineOut(ObjPtr(oid)) ELSE EngineErr(GIT_ENOTFOUND)
git_commit_lookup(oid) ==
    IF HasCommit(oid) THEN EngineOut(ObjPtr(oid)) ELSE EngineErr(GIT_ENOTFOUND)
git_reference_lookup(name) ==
    IF refs[name] # NoRef THEN EngineOut(RefPtr) ELSE EngineErr(GIT_ENOTFOUND)
git_repository_head ==
    IF Resolved("HEAD") # 0 THEN EngineOut(RefPtr) ELSE EngineErr(GIT_ENOTFOUND)
git_repository_index == EngineOut(IndexPtr)
git_repository_config == EngineOut(ConfigPtr)

\* the revision grammar, as far as RevSpecs needs it
IsRange(spec) == spec = "topic..HEAD"
RevRef(rev) == IF rev = "topic" THEN "refs/heads/topic" ELSE "HEAD"
RangeFrom(spec) == "topic"
RangeTo(spec) == "HEAD"

git_revparse_single(spec) ==
    IF IsRange(spec) THEN EngineErr(GIT_ERROR)
    ELSE IF Resolved(RevRef(spec)) = 0 THEN EngineErr(GIT_ENOTFOUND)
    ELSE EngineOut(ObjPtr(Resolved(RevRef(spec))))

RevErr(rc) == {EngRev(rc, NullPtr, 0, NullPtr)}

\* git_revparse fills a git_revspec: a single revision gives SINGLE and from,
\* a range gives RANGE, from and to.  With breach the engine may also give
\* SINGLE together with a to.
git_revparse(spec) ==
    IF IsRange(spec)
    THEN LET a == Resolved(RevRef(RangeFrom(spec)))
             b == Resolved(RevRef(RangeTo(spec)))
         IN IF a = 0 \/ b = 0 THEN RevErr(GIT_ENOTFOUND)
            ELSE {EngRev(GIT_OK, ObjPtr(a), GIT_REVPARSE_RANGE, ObjPtr(b))}
    ELSE LET a == Resolved(RevRef(spec))
         IN IF a = 0 THEN RevErr(GIT_ENOTFOUND)
            ELSE {EngRev(GIT_OK, ObjPtr(a), GIT_REVPARSE_SINGLE, NullPtr)}
                 \cup (IF breach
                       THEN {EngRev(GIT_OK, ObjPtr(a), GIT_REVPARSE_SINGLE, ObjPtr(a))}
                       ELSE {})

\* ----------------------------------------------------------- child handles
\* X::from_raw(self, raw): the child borrows the Repository that made it
ChildOf(kind, h, raw) ==
    [cid |-> nextChild + 1, kind |-> kind, raw |-> raw, to |-> <<>>,
     repo |-> h, origin |-> h]

\* X::from_raw(raw): the child keeps no reference to the Repository
Unbound(kind, h, raw) ==
    [cid |-> nextChild + 1, kind |-> kind, raw |-> raw, to |-> <<>>,
     repo |-> 0, origin |-> h]

\* Revspec::from_objects(Some(obj), None), obj == Object::from_raw(self, from)
Revspec_from_objects(h, from) ==
    [cid |-> nextChild + 1, kind |-> "Revspec", raw |-> from, to |-> <<>>,
     repo |-> h, origin |-> h]

\* git_revparse_mode_t::contains
contains(flags, bit) == (flags \div bit) % 2 = 1

Err == [out |-> "err", val |-> NoChild]
Abort == [out |-> "abort", val |-> NoChild]
Ok(val) == [out |-> "ok", val |-> val]

\* revparse building the Revspec from the to pointer
revparse_wraps_to(h, r) ==
    IF try_call(r.rc) = "err" THEN Err
    ELSE IF contains(r.flags, GIT_REVPARSE_SINGLE)
         THEN IF r.to # NullPtr THEN Abort
              ELSE Ok(Revspec_from_objects(h, r.to))
         ELSE Abort

\* Repository::revparse
revparse(h, r) ==
    IF try_call(r.rc) = "err" THEN Err
    ELSE IF contains(r.flags, GIT_REVPARSE_SINGLE)
         THEN IF r.to # NullPtr THEN Abort
              ELSE Ok(Revspec_from_objects(h, r.out))
         ELSE Abort

\* Repository::revparse_single
revparse_single(h, r) ==
    IF try_call(r.rc) = "err" THEN Err
    ELSE IF r.out = NullPtr THEN Abort
    ELSE Ok(ChildOf("Object", h, r.out))

\* Repository::head
head(h, r) ==
    IF try_call(r.rc) = "err" THEN Err ELSE Ok(ChildOf("Reference", h, r.out))

\* Repository::index
index_(h, r) ==
    IF try_call(r.rc) = "err" THEN Err ELSE Ok(Unbound("Index", h, r.out))

\* Repository::config
config(h, r) ==
    IF try_call(r.rc) = "err" THEN Err ELSE Ok(Unbound("Config", h, r.out))

\* find_blob building the Blob without the Repository
find_blob_unbound(h, r) ==
    IF try_call(r.rc) = "err" THEN Err ELSE Ok(Unbound("Blob", h, r.out))

\* Repository::find_blob
find_blob(h, r) ==
    IF try_call(r.rc) = "err" THEN Err ELSE Ok(ChildOf("Blob", h, r.out))

\* Repository::find_commit
find_commit(h, r) ==
    IF try_call(r.rc) = "err" THEN Err ELSE Ok(ChildOf("Commit", h, r.out))

\* Repository::find_reference
find_reference(h, r) ==
    IF try_call(r.rc) = "err" THEN Err ELSE Ok(ChildOf("Reference", h, r.out))

\* fail! and assert! unwind the task: every live value is dropped on the way
Unwind ==
    /\ panicked' = TRUE
    /\ children' = {}
    /\ repos' = [h \in HandleIds |->
                    IF repos[h].st = "live" THEN [repos[h] EXCEPT !.st = "dropped"]
                    ELSE repos[h]]
    /\ freeCalls' = [p \in DOMAIN freeCalls |->
                        freeCalls[p] + Cardinality({h \in HandleIds :
                            repos[h].st = "live" /\ repos[h].raw = p})]
    /\ UNCHANGED nextChild

\* the program receives the result of a method that returns a child handle;
\* it keeps the handle in a variable or lets it go at the end of the statement
TakeChild(op, res, args, r, keep) ==
    /\ last' = Ret(op, res.out, res.val, 0, args)
    /\ eng' = EngRev(r.rc, r.out, r.flags, r.to)
    /\ IF res.out = "ok" /\ ~keep
       THEN UNCHANGED <<repos, children, nextChild, freeCalls, panicked>>
       ELSE IF res.out = "ok"
       THEN /\ children' = children \cup {res.val}
            /\ nextChild' = nextChild + 1
            /\ UNCHANGED <<repos, freeCalls, panicked>>
       ELSE IF res.out = "abort" THEN Unwind
       ELSE UNCHANGED <<repos, children, nextChild, freeCalls, panicked>>

\* a method can be called on a Repository value that is alive; the engine
\* asserts that the repository pointer it is given is not null
Usable(h) == ~panicked /\ repos[h].st = "live" /\ repos[h].raw # NullPtr
CanMake(keep) == keep => nextChild < MaxChildren

Revparse(h, spec, keep) ==
    /\ Usable(h) /\ CanMake(keep)
    /\ \E r \in git_revparse(spec) :
          TakeChild("revparse", revparse(h, r), SpecArg(spec), r, keep)
    /\ UNCHANGED <<content, nextPtr, breach>>

RevparseSingle(h, spec, keep) ==
    /\ Usable(h) /\ CanMake(keep)
    /\ \E r \in git_revparse_single(spec) :
          TakeChild("revparse_single", revparse_single(h, r), SpecArg(spec), r, keep)
    /\ UNCHANGED <<content, nextPtr, breach>>

HeadOp(h, keep) ==
    /\ Usable(h) /\ CanMake(keep)
    /\ \E r \in git_repository_head : TakeChild("head", head(h, r), NoArgs, r, keep)
    /\ UNCHANGED <<content, nextPtr, breach>>

IndexOp(h, keep) ==
    /\ Usable(h) /\ CanMake(keep)
    /\ \E r \in git_repository_index : TakeChild("index", index_(h, r), NoArgs, r, keep)
    /\ UNCHANGED <<content, nextPtr, breach>>

ConfigOp(h, keep) ==
    /\ Usable(h) /\ CanMake(keep)
    /\ \E r \in git_repository_config : TakeChild("config", config(h, r), NoArgs, r, keep)
    /\ UNCHANGED <<content, nextPtr, breach>>

FindBlob(h, oid, keep) ==
    /\ Usable(h) /\ CanMake(keep)
    /\ \E r \in git_blob_lookup(oid) : TakeChild("find_blob", find_blob(h, r), NoArgs, r, keep)
    /\ UNCHANGED <<content, nextPtr, breach>>

FindCommit(h, oid, keep) ==
    /\ Usable(h) /\ CanMake(keep)
    /\ \E r \in git_commit_lookup(oid) : TakeChild("find_commit", find_commit(h, r), NoArgs, r, keep)
    /\ UNCHANGED <<content, nextPtr, breach>>

FindReference(h, name, keep) ==
    /\ Usable(h) /\ CanMake(keep)
    /\ \E r \in git_reference_lookup(name) :
          TakeChild("find_reference", find_reference(h, r), NoArgs, r, keep)
    /\ UNCHANGED <<content, nextPtr, breach>>

\* a child handle goes out of scope
DropChild(c) ==
    /\ ~panicked
    /\ c \in children
    /\ children' = children \ {c}
    /\ last' = Ret("drop_child", "ok", NoChild, 0, NoArgs)
    /\ eng' = NoEng
    /\ UNCHANGED <<content, repos, nextChild, nextPtr, freeCalls, panicked,
                   breach>>

\* ------------------------------------------- engine: commits and references
NoName == ""        \* update_ref = None

RECURSIVE FinalRef(_, _, _)
\* the reference an update through name lands on: the direct or missing
\* reference at the end of the symbolic chain, "" when the chain does not end
FinalRef(rf, name, depth) ==
    IF depth = 0 THEN ""
    ELSE IF rf[name].sym # "" THEN FinalRef(rf, rf[name].sym, depth - 1)
    ELSE name

\* the object id of a commit is a hash of its content: the id of the commit
\* already stored with this content, else an id not used yet (0: no room)
ContentId(tree, parents) ==
    IF \E c \in CommitIds : commits[c] = CommitObj(tree, parents)
    THEN CHOOSE c \in CommitIds : commits[c] = CommitObj(tree, parents)
    ELSE IF \E c \in CommitIds : ~commits[c].present
    THEN CHOOSE c \in CommitIds :
            ~commits[c].present /\ \A d \in CommitIds : ~commits[d].present => c <= d
    ELSE 0

CommitRet(rc, oid, rf, cm) == [rc |-> rc, oid |-> oid, refs |-> rf, commits |-> cm]

\* git_commit_create: writes the commit; with update_ref it also moves the
\* reference update_ref resolves to.  If that reference exists, the first
\* parent must be its tip.
git_commit_create(update_ref, tree, parent_count, parents) ==
    LET ps == SubSeq(parents, 1, parent_count)
        id == ContentId(tree, ps)
        cm == [commits EXCEPT ![id] = CommitObj(tree, ps)]
    IN IF update_ref = NoName THEN {CommitRet(GIT_OK, id, refs, cm)}
       ELSE IF FinalRef(refs, update_ref, MaxNesting) = ""
       THEN {CommitRet(GIT_ERROR, 0, refs, commits)}
       ELSE IF Resolved(update_ref) # 0
               /\ (ps = <<>> \/ ps[1] # Resolved(update_ref))
       THEN {CommitRet(GIT_ERROR, 0, refs, commits)}
       ELSE {CommitRet(GIT_OK, id,
                [refs EXCEPT ![FinalRef(refs, update_ref, MaxNesting)] = DirectRef(id)],
                cm)}

WithRefs(E, rf) ==
    {[rc |-> e.rc, out |-> e.out, flags |-> e.flags, to |-> e.to, refs |-> rf] : e \in E}

\* git_reference_create: fails when the name exists, unless force
git_reference_create(name, oid, force) ==
    IF ~HasCommit(oid) THEN WithRefs(EngineErr(GIT_ERROR), refs)
    ELSE IF refs[name] # NoRef /\ ~force THEN WithRefs(EngineErr(GIT_EEXISTS), refs)
    ELSE WithRefs(EngineOut(RefPtr), [refs EXCEPT ![name] = DirectRef(oid)])

\* git_reference_symbolic_create: fails when the name exists, unless force
git_reference_symbolic_create(name, target, force) ==
    IF refs[name] # NoRef /\ ~force THEN WithRefs(EngineErr(GIT_EEXISTS), refs)
    ELSE WithRefs(EngineOut(RefPtr), [refs EXCEPT ![name] = SymbolicRef(target)])

BranchRef(branch_name) ==
    IF branch_name = "master" THEN "refs/heads/master" ELSE "refs/heads/topic"

\* git_branch_create: a direct reference refs/heads/<name> to the commit
git_branch_create(branch_name, target, force) ==
    git_reference_create(BranchRef(branch_name), target, force)

git_reference_name_to_id(name) ==
    IF Resolved(name) # 0 THEN {CommitRet(GIT_OK, Resolved(name), refs, commits)}
    ELSE {CommitRet(GIT_ENOTFOUND, 0, refs, commits)}

\* ------------------------------------------ Repository: commits, references
OidRes(r) ==
    IF try_call(r.rc) = "err" THEN [out |-> "err", oid |-> 0, eng |-> r]
    ELSE [out |-> "ok", oid |-> r.oid, eng |-> r]

ChildRes(r, val) ==
    IF try_call(r.rc) = "err" THEN [out |-> "err", val |-> NoChild, eng |-> r]
    ELSE [out |-> "ok", val |-> val, eng |-> r]

\* commit that never passes update_ref on
commit_noref(update_ref, tree, parents) ==
    {OidRes(r) : r \in git_commit_create(NoName, tree, Len(parents), parents)}

\* commit that does not look at the status of the engine
commit_unchecked(update_ref, tree, parents) ==
    {[out |-> "ok", oid |-> r.oid, eng |-> r] :
        r \in git_commit_create(update_ref, tree, Len(parents), parents)}

\* Repository::commit
commit(update_ref, tree, parents) ==
    {OidRes(r) : r \in git_commit_create(update_ref, tree, Len(parents), parents)}

\* Repository::refname_to_id
refname_to_id(name) ==
    {OidRes(r) : r \in git_reference_name_to_id(name)}

\* branch that always passes force = true
branch_forced(h, branch_name, target, force) ==
    {ChildRes(r, ChildOf("Branch", h, r.out)) :
        r \in git_branch_create(branch_name, target, TRUE)}

\* Repository::branch
branch(h, branch_name, target, force) ==
    {ChildRes(r, ChildOf("Branch", h, r.out)) :
        r \in git_branch_create(branch_name, target, force)}

\* Repository::reference
reference(h, name, id, force) ==
    {ChildRes(r, ChildOf("Reference", h, r.out)) :
        r \in git_reference_create(name, id, force)}

\* Repository::reference_symbolic
reference_symbolic(h, name, target, force) ==
    {ChildRes(r, ChildOf("Reference", h, r.out)) :
        r \in git_reference_symbolic_create(name, target, force)}

\* a &Commit argument is a handle find_commit gave: its commit is stored
Commit(h, update_ref, tree, parents) ==
    /\ Usable(h)
    /\ \A i \in 1..Len(parents) : HasCommit(parents[i])
    /\ ContentId(tree, parents) # 0
    /\ \E o \in commit(update_ref, tree, parents) :
          /\ last' = Ret("commit", o.out, NoChild, o.oid,
                         Args("", update_ref, "", parents, FALSE, ""))
          /\ eng' = EngRet(o.eng.rc, NullPtr)
          /\ refs' = o.eng.refs
          /\ commits' = o.eng.commits
    /\ UNCHANGED <<gitdir, disk, index, workdir, handles, panicked, breach>>

RefnameToId(h, name) ==
    /\ Usable(h)
    /\ \E o \in refname_to_id(name) :
          /\ last' = Ret("refname_to_id", o.out, NoChild, o.oid,
                         Args("", name, "", <<>>, FALSE, ""))
          /\ eng' = EngRet(o.eng.rc, NullPtr)
    /\ UNCHANGED <<content, handles, panicked, breach>>

Branch(h, branch_name, target, force, keep) ==
    /\ Usable(h) /\ CanMake(keep)
    /\ HasCommit(target)
    /\ \E o \in branch(h, branch_name, target, force) :
          /\ TakeChild("branch", o,
                       Args("", BranchRef(branch_name), "", <<target>>, force, ""),
                       o.eng, keep)
          /\ refs' = o.eng.refs
    /\ UNCHANGED <<gitdir, disk, commits, index, workdir, nextPtr, breach>>

Reference(h, name, id, force, keep) ==
    /\ Usable(h) /\ CanMake(keep)
    /\ \E o \in reference(h, name, id, force) :
          /\ TakeChild("reference", o, Args("", name, "", <<id>>, force, ""),
                       o.eng, keep)
          /\ refs' = o.eng.refs
    /\ UNCHANGED <<gitdir, disk, commits, index, workdir, nextPtr, breach>>

ReferenceSymbolic(h, name, target, force, keep) ==
    /\ Usable(h) /\ CanMake(keep)
    /\ \E o \in reference_symbolic(h, name, target, force) :
          /\ TakeChild("reference_symbolic", o,
                       Args("", name, target, <<>>, force, ""), o.eng, keep)
          /\ refs' = o.eng.refs
    /\ UNCHANGED <<gitdir, disk, commits, index, workdir, nextPtr, breach>>

\* --------------------------------------------------------------- reset
ResetTypes == {"Soft", "Mixed", "Hard"}

ResetRet(rc, rf, ix, wd) == [rc |-> rc, refs |-> rf, index |-> ix, workdir |-> wd]

\* the working tree after a forced checkout of tree: files of the tree get its
\* content, files the index tracked and the tree lacks go away, files that
\* are in neither (untracked, ignored) stay as they are
CheckoutTree(tree) ==
    [f \in Files |->
        IF tree[f] # 0 THEN tree[f]
        ELSE IF index[f] # 0 THEN 0
        ELSE workdir[f]]

\* git_reset: moves the reference HEAD resolves to; Mixed and Hard replace the
\* index with the tree of the target; Hard also checks that tree out.  The
\* signature and the message go to the reflog.
git_reset(target, reset_type, sig, msg) ==
    LET id == git_object_id(target)
        tree == TreeContent(commits[id].tree)
        fin == FinalRef(refs, "HEAD", MaxNesting)
    IN IF fin = "" THEN {ResetRet(GIT_ERROR, refs, index, workdir)}
       ELSE {ResetRet(GIT_OK,
                [refs EXCEPT ![fin] = DirectRef(id)],
                IF reset_type = "Soft" THEN index ELSE tree,
                IF reset_type = "Hard" THEN CheckoutTree(tree) ELSE workdir)}

UnitRes(r) == [out |-> try_call(r.rc), eng |-> r]

\* reset that asks the engine for a hard reset whatever the kind
reset_hard_always(target, kind, sig, msg) ==
    {UnitRes(r) : r \in git_reset(target.raw, "Hard", sig, msg)}

\* Repository::reset
reset(target, kind, sig, msg) ==
    {UnitRes(r) : r \in git_reset(target.raw, kind, sig, msg)}

\* target is an Object of the same Repository, alive during the call
Reset(h, target, kind, sig, msg) ==
    /\ Usable(h)
    /\ target \in children /\ target.kind = "Object" /\ target.repo = h
    /\ target.raw # NullPtr
    /\ \E o \in reset(target, kind, sig, msg) :
          /\ last' = Ret("reset", o.out, NoChild, 0,
                         Args("", "HEAD", "", <<git_object_id(target.raw)>>, FALSE, kind))
          /\ eng' = EngRet(o.eng.rc, NullPtr)
          /\ refs' = o.eng.refs
          /\ index' = o.eng.index
          /\ workdir' = o.eng.workdir
    /\ UNCHANGED <<gitdir, disk, commits, handles, panicked, breach>>

\* ------------------------------------------------------- reset_default
\* the arguments of a call that takes a list of paths
PathArgs(oids, paths) ==
    [spec |-> "", name |-> "", target |-> "", oids |-> oids, force |-> FALSE,
     kind |-> "", paths |-> paths]

\* git_reset_default: the index entries of the listed paths are taken from
\* the tree of the target; without a target they are removed.  Head, the
\* other entries and the working tree stay.
git_reset_default(target, pathspecs) ==
    LET tree == IF target = NullPtr THEN [f \in Files |-> 0]
                ELSE TreeContent(commits[git_object_id(target)].tree)
    IN {ResetRet(GIT_OK, refs,
                 [f \in Files |-> IF f \in pathspecs THEN tree[f] ELSE index[f]],
                 workdir)}

\* reset_default that resets to the current head when there is no target
reset_default_head(target, paths) ==
    LET t == IF target = NoChild THEN ObjPtr(Resolved("HEAD")) ELSE target.raw
    IN {UnitRes(r) : r \in git_reset_default(t, paths)}

\* Repository::reset_default; target is NoChild for None
reset_default(target, paths) ==
    LET t == IF target = NoChild THEN NullPtr ELSE target.raw
    IN {UnitRes(r) : r \in git_reset_default(t, paths)}

ResetDefault(h, target, paths) ==
    /\ Usable(h)
    /\ \/ target = NoChild
       \/ /\ target \in children /\ target.kind = "Object" /\ target.repo = h
          /\ target.raw # NullPtr
    /\ \E o \in reset_default(target, paths) :
          /\ last' = Ret("reset_default", o.out, NoChild, 0,
                         PathArgs(IF target = NoChild THEN <<>>
                                  ELSE <<git_object_id(target.raw)>>, paths))
          /\ eng' = EngRet(o.eng.rc, NullPtr)
          /\ refs' = o.eng.refs
          /\ index' = o.eng.index
          /\ workdir' = o.eng.workdir
    /\ UNCHANGED <<gitdir, disk, commits, handles, panicked, breach>>

\* --------------------------------------------------------------- state
git_repository_state == {repostate}

\* state that takes an unknown number for a clean repository
state_coerce(raw) ==
    IF raw = GIT_REPOSITORY_STATE_NONE THEN Ok(RepositoryState("Clean"))
    ELSE IF raw = GIT_REPOSITORY_STATE_MERGE THEN Ok(RepositoryState("Merge"))
    ELSE IF raw = GIT_REPOSITORY_STATE_REVERT THEN Ok(RepositoryState("Revert"))
    ELSE IF raw = GIT_REPOSITORY_STATE_CHERRYPICK THEN Ok(RepositoryState("CherryPick"))
    ELSE IF raw = GIT_REPOSITORY_STATE_BISECT THEN Ok(RepositoryState("Bisect"))
    ELSE IF raw = GIT_REPOSITORY_STATE_REBASE THEN Ok(RepositoryState("Rebase"))
    ELSE IF raw = GIT_REPOSITORY_STATE_REBASE_INTERACTIVE THEN Ok(RepositoryState("RebaseInteractive"))
    ELSE IF raw = GIT_REPOSITORY_STATE_REBASE_MERGE THEN Ok(RepositoryState("RebaseMerge"))
    ELSE IF raw = GIT_REPOSITORY_STATE_APPLY_MAILBOX THEN Ok(RepositoryState("ApplyMailbox"))
    ELSE IF raw = GIT_REPOSITORY_STATE_APPLY_MAILBOX_OR_REBASE
         THEN Ok(RepositoryState("ApplyMailboxOrRebase"))
    ELSE Ok(RepositoryState("Clean"))

\* Repository::state: the chain of comparisons the check! macro expands to
state(raw) ==
    IF raw = GIT_REPOSITORY_STATE_NONE THEN Ok(RepositoryState("Clean"))
    ELSE IF raw = GIT_REPOSITORY_STATE_MERGE THEN Ok(RepositoryState("Merge"))
    ELSE IF raw = GIT_REPOSITORY_STATE_REVERT THEN Ok(RepositoryState("Revert"))
    ELSE IF raw = GIT_REPOSITORY_STATE_CHERRYPICK THEN Ok(RepositoryState("CherryPick"))
    ELSE IF raw = GIT_REPOSITORY_STATE_BISECT THEN Ok(RepositoryState("Bisect"))
    ELSE IF raw = GIT_REPOSITORY_STATE_REBASE THEN Ok(RepositoryState("Rebase"))
    ELSE IF raw = GIT_REPOSITORY_STATE_REBASE_INTERACTIVE THEN Ok(RepositoryState("RebaseInteractive"))
    ELSE IF raw = GIT_REPOSITORY_STATE_REBASE_MERGE THEN Ok(RepositoryState("RebaseMerge"))
    ELSE IF raw = GIT_REPOSITORY_STATE_APPLY_MAILBOX THEN Ok(RepositoryState("ApplyMailbox"))
    ELSE IF raw = GIT_REPOSITORY_STATE_APPLY_MAILBOX_OR_REBASE
         THEN Ok(RepositoryState("ApplyMailboxOrRebase"))
    ELSE Abort

\* the program receives the result of a method that returns a plain value
TakeValue(op, res, rc) ==
    /\ last' = Ret(op, res.out, res.val, 0, NoArgs)
    /\ eng' = EngRet(rc, NullPtr)
    /\ IF res.out = "abort" THEN Unwind
       ELSE UNCHANGED <<repos, children, nextChild, freeCalls, panicked>>

StateOp(h) ==
    /\ Usable(h)
    /\ \E s \in git_repository_state : TakeValue("state", state(s), s)
    /\ UNCHANGED <<content, nextPtr, breach>>

\* ------------------------------------------------------ is_bare, workdir
WorkdirPtr == 51

git_repository_is_bare(ptr) == IF disk = "bare" THEN 1 ELSE 0
git_repository_workdir(ptr) == IF disk = "bare" THEN NullPtr ELSE WorkdirPtr

\* the arguments of a call that has none but the Repository it is made on
SelfArgs(h) ==
    [spec |-> "", name |-> "", target |-> "", oids |-> <<>>, force |-> FALSE,
     kind |-> "", self |-> h]

\* is_bare that never sees a bare repository
is_bare_never(rc) == Bool(FALSE)

\* Repository::is_bare
is_bare(rc) == Bool(rc = 1)

\* Repository::workdir; the path is that of directory "D"
workdir_(ptr) == IF ptr = NullPtr THEN None ELSE Some(<<"D">>)

\* the program receives the answer of a method that cannot fail
TakeAnswer(op, h, val, rc) ==
    /\ last' = Ret(op, "ok", val, 0, SelfArgs(h))
    /\ eng' = EngRet(rc, NullPtr)
    /\ UNCHANGED <<content, handles, panicked, breach>>

IsBare(h) ==
    /\ Usable(h)
    /\ LET rc == git_repository_is_bare(repos[h].raw)
       IN TakeAnswer("is_bare", h, is_bare(rc), rc)

Workdir(h) ==
    /\ Usable(h)
    /\ LET ptr == git_repository_workdir(repos[h].raw)
       IN TakeAnswer("workdir", h, workdir_(ptr), IF ptr = NullPtr THEN 0 ELSE 1)

\* a repository is empty when it has no commit
git_repository_is_empty(ptr) == IF commits = EmptyCommits THEN 1 ELSE 0

\* Repository::is_empty
is_empty(rc) == IF try_call(rc) = "err" THEN Err ELSE Ok(Bool(rc = 1))

IsEmpty(h) ==
    /\ Usable(h)
    /\ LET rc == git_repository_is_empty(repos[h].raw)
       IN /\ last' = Ret("is_empty", is_empty(rc).out, is_empty(rc).val, 0, SelfArgs(h))
          /\ eng' = EngRet(rc, NullPtr)
    /\ UNCHANGED <<content, handles, panicked, breach>>

\* ----------------------------------------------------------- namespace
\* the namespace of an engine repository: None for a null pointer, or the
\* bytes of a C string with its terminating NUL
git_repository_get_namespace(ptr) == namespace[ptr]

\* the bytes of a C string before its NUL
RECURSIVE as_bytes_no_nul(_)
as_bytes_no_nul(cstr) ==
    IF cstr = <<>> \/ Head(cstr) = 0 THEN <<>>
    ELSE <<Head(cstr)>> \o as_bytes_no_nul(Tail(cstr))

\* opt_bytes: None for a null pointer, the bytes of the C string otherwise
opt_bytes(c) == IF ~c.some THEN None ELSE Some(as_bytes_no_nul(c.val))

\* a continuation byte of UTF-8 within lo..hi
Cont(bytes, i, lo, hi) == Len(bytes) >= i /\ bytes[i] >= lo /\ bytes[i] <= hi

\* how many bytes the well-formed sequence at the head of bytes takes, 0 when
\* it is not well formed
Utf8Width(bytes) ==
    LET first == bytes[1] IN
    IF first < 128 THEN 1
    ELSE IF first >= 194 /\ first <= 223
         THEN (IF Cont(bytes, 2, 128, 191) THEN 2 ELSE 0)
    ELSE IF first >= 224 /\ first <= 239
         THEN (IF /\ Cont(bytes, 2, IF first = 224 THEN 160 ELSE 128,
                                    IF first = 237 THEN 159 ELSE 191)
                  /\ Cont(bytes, 3, 128, 191) THEN 3 ELSE 0)
    ELSE IF first >= 240 /\ first <= 244
         THEN (IF /\ Cont(bytes, 2, IF first = 240 THEN 144 ELSE 128,
                                    IF first = 244 THEN 143 ELSE 191)
                  /\ Cont(bytes, 3, 128, 191)
                  /\ Cont(bytes, 4, 128, 191) THEN 4 ELSE 0)
    ELSE 0

RECURSIVE is_utf8(_)
is_utf8(bytes) ==
    IF bytes = <<>> THEN TRUE
    ELSE LET w == Utf8Width(bytes)
         IN w # 0 /\ is_utf8(SubSeq(bytes, w + 1, Len(bytes)))

\* str::from_utf8: the same bytes as text when they are UTF-8
from_utf8(bytes) == IF is_utf8(bytes) THEN Some(bytes) ELSE None

\* Option::and_then with str::from_utf8
and_then_from_utf8(opt) == IF opt.some THEN from_utf8(opt.val) ELSE None

\* Repository::namespace_bytes
namespace_bytes(h) == opt_bytes(git_repository_get_namespace(repos[h].raw))

\* namespace that takes any bytes for text
namespace_unchecked(h) == namespace_bytes(h)

\* Repository::namespace
namespace_(h) == and_then_from_utf8(namespace_bytes(h))

NamespaceBytes(h) ==
    /\ Usable(h)
    /\ TakeAnswer("namespace_bytes", h, namespace_bytes(h), 0)

Namespace(h) ==
    /\ Usable(h)
    /\ TakeAnswer("namespace", h, namespace_(h), 0)

\* ---------------------------------------------------------- submodules
SubmoduleNames == {"liba", "libb", "libc"}
SubPtr(name) == IF name = "liba" THEN 61 ELSE IF name = "libb" THEN 62 ELSE 63

\* the engine guarantees that a name it enumerates can be looked up
git_submodule_lookup(name) ==
    {EngRet(GIT_OK, SubPtr(name))}
        \cup (IF breach THEN {EngRet(GIT_ENOTFOUND, NullPtr)} ELSE {})

\* where an enumeration stands: the status so far (1 after a failed
\* assertion in the callback), the Vec the callback fills, the names the
\* callback was called with, the status of the last lookup
Walk(rc, ret, fired, lookup) ==
    [rc |-> rc, ret |-> ret, fired |-> fired, lookup |-> lookup]

\* append that lets a name go when the lookup fails
append_skip(h, name, r, w) ==
    IF r.rc # 0 THEN Walk(0, w.ret, Append(w.fired, name), r.rc)
    ELSE Walk(0, Append(w.ret, ChildOf("Submodule", h, r.out)),
              Append(w.fired, name), r.rc)

\* the callback of submodules: one lookup, one push
append(h, name, r, w) ==
    IF r.rc # 0 THEN Walk(1, w.ret, Append(w.fired, name), r.rc)
    ELSE Walk(0, Append(w.ret, ChildOf("Submodule", h, r.out)),
              Append(w.fired, name), r.rc)

\* git_submodule_foreach: calls the callback for each submodule in turn and
\* stops when the callback does not return 0; it may fail before any call
\* of the callback and after each of them
RECURSIVE git_submodule_foreach(_, _, _)
git_submodule_foreach(h, names, w) ==
    {Walk(GIT_ERROR, w.ret, w.fired, w.lookup)} \cup
    (IF names = <<>> THEN {w}
     ELSE UNION {LET a == append(h, Head(names), r, w)
                 IN IF a.rc # 0 THEN {a}
                    ELSE git_submodule_foreach(h, Tail(names), a) :
                 r \in git_submodule_lookup(Head(names))})

\* Repository::submodules
submodules(h, w) ==
    IF w.rc > 0 THEN Abort
    ELSE IF try_call(w.rc) = "err" THEN Err
    ELSE Ok([list |-> w.ret])

\* what the engine did during submodules
EngWalk(w) ==
    [rc |-> w.rc, out |-> NullPtr, flags |-> 0, to |-> NullPtr,
     fired |-> w.fired, lookup |-> w.lookup]

\* the failed assertion is inside a callback the engine called: the task
\* unwinds through the engine, or the process stops where it is
Crash ==
    /\ panicked' = TRUE
    /\ UNCHANGED <<repos, children, nextChild, freeCalls>>

Submodules(h) ==
    /\ Usable(h)
    /\ \E w \in git_submodule_foreach(h, submods, Walk(GIT_OK, <<>>, <<>>, 0)) :
          LET res == submodules(h, w)
          IN /\ last' = Ret("submodules", res.out, res.val, 0, SelfArgs(h))
             /\ eng' = EngWalk(w)
             /\ IF res.out = "abort" THEN Unwind \/ Crash
                ELSE UNCHANGED <<repos, children, nextChild, freeCalls, panicked>>
    /\ UNCHANGED <<content, nextPtr, breach>>

\* ---------------------------------------------------------- specifications
TwoCommitRefs ==
    [n \in RefNames |->
        IF n = "HEAD" THEN SymbolicRef("refs/heads/master")
        ELSE IF n = "refs/heads/master" THEN DirectRef(2) ELSE DirectRef(1)]
TwoCommits ==
    [c \in CommitIds |->
        IF c = 1 THEN CommitObj(11, <<>>)
        ELSE IF c = 2 THEN CommitObj(12, <<1>>) ELSE NoCommit]

OidInputs == {1, 21}

InitHandles ==
    /\ repos = [h \in HandleIds |-> NoHandle]
    /\ children = {}
    /\ nextChild = 0
    /\ nextPtr = 0
    /\ freeCalls = [p \in HandleIds |-> 0]
    /\ last = NoRet
    /\ eng = NoEng
    /\ panicked = FALSE

\* directory D holds no repository yet, or holds one with two commits
InitDisk ==
    \/ /\ disk = "none"
       /\ refs = EmptyRefs
       /\ commits = EmptyCommits
       /\ index = EmptyIndex
       /\ workdir = EmptyIndex
    \/ /\ disk = "normal"
       /\ refs = TwoCommitRefs
       /\ commits = TwoCommits
       /\ index = TreeContent(12)
       /\ workdir = TreeContent(12)

\* no operation in progress, no namespace, no submodule
InitGitdir ==
    /\ repostate = GIT_REPOSITORY_STATE_NONE
    /\ namespace = [p \in HandleIds |-> None]
    /\ submods = <<>>

Init == InitHandles /\ InitDisk /\ InitGitdir /\ breach = FALSE

InitBreach == InitHandles /\ InitDisk /\ InitGitdir /\ breach = TRUE

Next ==
    \/ \E path \in FsPaths : Open(path)
    \/ \E path \in FsPaths, bare \in BOOLEAN : Init_(path, bare)
    \/ \E h \in HandleIds, spec \in RevSpecs, keep \in {TRUE} : Revparse(h, spec, keep)
    \/ \E h \in HandleIds, spec \in RevSpecs, keep \in {TRUE} : RevparseSingle(h, spec, keep)
    \/ \E h \in HandleIds, keep \in {TRUE} : HeadOp(h, keep)
    \/ \E h \in HandleIds, keep \in {TRUE} : IndexOp(h, keep)
    \/ \E h \in HandleIds, keep \in {TRUE} : ConfigOp(h, keep)
    \/ \E h \in HandleIds, oid \in OidInputs, keep \in {TRUE} : FindBlob(h, oid, keep)
    \/ \E h \in HandleIds, oid \in OidInputs, keep \in {TRUE} : FindCommit(h, oid, keep)
    \/ \E h \in HandleIds, name \in RefNames, keep \in {TRUE} : FindReference(h, name, keep)
    \/ \E c \in children : DropChild(c)
    \/ \E h \in HandleIds : DropRepo(h)

Spec == Init /\ [][Next]_vars

SpecBreach == InitBreach /\ [][Next]_vars

\* ------------------------------------- specification: commits and references
\* one Repository is open on directory D, which holds a new repository or one
\* with two commits; handles returned are let go at the end of the statement
InitOpen ==
    /\ repos = [h \in HandleIds |-> IF h = 1 THEN from_raw(1) ELSE NoHandle]
    /\ children = {}
    /\ nextChild = 0
    /\ nextPtr = 1
    /\ freeCalls = [p \in HandleIds |-> 0]
    /\ last = NoRet
    /\ eng = NoEng
    /\ panicked = FALSE

InitStore ==
    \/ /\ refs = EmptyRefs
       /\ commits = EmptyCommits
       /\ index = EmptyIndex
       /\ workdir = EmptyIndex
    \/ /\ refs = TwoCommitRefs
       /\ commits = TwoCommits
       /\ index = TreeContent(12)
       /\ workdir = TreeContent(12)

InitRefs == InitOpen /\ disk = "normal" /\ InitStore /\ InitGitdir /\ breach = FALSE

\* the parent lists a caller passes: none, one commit, or a commit and the
\* first commit as a second parent
ParentLists ==
    {<<>>} \cup {<<p>> : p \in CommitIds} \cup {<<p, 1>> : p \in CommitIds \ {1}}

\* the names reference_symbolic is called with, and what they are to point at
SymbolicNames == {"HEAD", "refs/heads/topic"}
SymbolicTargets == {"refs/heads/master", "refs/heads/topic"}

UpdateRefs == {NoName, "HEAD", "refs/heads/topic"}

NextRefs ==
    \/ \E h \in HandleIds, u \in UpdateRefs, t \in {12}, ps \in ParentLists :
          Commit(h, u, t, ps)
    \/ \E h \in HandleIds, b \in BranchNames, c \in CommitIds, f \in BOOLEAN :
          Branch(h, b, c, f, FALSE)
    \/ \E h \in HandleIds, n \in RefNames, c \in CommitIds, f \in BOOLEAN :
          Reference(h, n, c, f, FALSE)
    \/ \E h \in HandleIds, n \in SymbolicNames, t \in SymbolicTargets, f \in BOOLEAN :
          ReferenceSymbolic(h, n, t, f, FALSE)

SpecRefs == InitRefs /\ [][NextRefs]_vars

\* ------------------------------------------- specification: revision parsing
\* revisions are resolved while references are created and replaced; the
\* engine may or may not keep to the shape of its results
InitRev == InitOpen /\ disk = "normal" /\ InitStore /\ InitGitdir /\ breach \in BOOLEAN

NextRev ==
    \/ \E h \in HandleIds, spec \in RevSpecs : Revparse(h, spec, FALSE)
    \/ \E h \in HandleIds, spec \in RevSpecs : RevparseSingle(h, spec, FALSE)
    \/ \E h \in HandleIds, n \in RefNames : RefnameToId(h, n)
    \/ \E h \in HandleIds, n \in RefNames, c \in CommitIds, f \in BOOLEAN :
          Reference(h, n, c, f, FALSE)
    \/ \E h \in HandleIds, n \in SymbolicNames, t \in SymbolicTargets, f \in BOOLEAN :
          ReferenceSymbolic(h, n, t, f, FALSE)

SpecRev == InitRev /\ [][NextRev]_vars

\* -------------------------------------------------- specification: reset
\* a repository with two commits whose index and working tree may differ
\* from the head commit, with an untracked file or without
IndexSamples ==
    {TreeContent(11), TreeContent(12), [f \in Files |-> IF f = "junk" THEN 0 ELSE 2]}
WorkdirSamples ==
    {TreeContent(12),
     [f \in Files |-> IF f = "a" THEN 2 ELSE 1],
     [f \in Files |-> IF f = "b" THEN 2 ELSE 1]}

InitReset ==
    /\ InitOpen
    /\ disk = "normal"
    /\ refs = TwoCommitRefs
    /\ commits = TwoCommits
    /\ index \in IndexSamples
    /\ workdir \in WorkdirSamples
    /\ InitGitdir
    /\ breach = FALSE

NextReset ==
    \/ \E h \in HandleIds, spec \in RevSpecs : RevparseSingle(h, spec, TRUE)
    \/ \E c \in children : DropChild(c)
    \/ \E h \in HandleIds, c \in children, k \in ResetTypes, sig, msg \in BOOLEAN :
          Reset(h, c, k, sig, msg)

SpecReset == InitReset /\ [][NextReset]_vars

\* ------------------------------------------ specification: reset_default
PathSets == SUBSET Files

NextResetDefault ==
    \/ \E h \in HandleIds, spec \in RevSpecs : RevparseSingle(h, spec, TRUE)
    \/ \E c \in children : DropChild(c)
    \/ \E h \in HandleIds, t \in children \cup {NoChild}, ps \in PathSets :
          ResetDefault(h, t, ps)

SpecResetDefault == InitReset /\ [][NextResetDefault]_vars

\* -------------------------------------------------- specification: state
\* the numbers the engine documents, and with breach its neighbours
KnownStates ==
    GIT_REPOSITORY_STATE_NONE..GIT_REPOSITORY_STATE_APPLY_MAILBOX_OR_REBASE
EngineStates ==
    IF breach
    THEN (GIT_REPOSITORY_STATE_NONE - 1)..(GIT_REPOSITORY_STATE_APPLY_MAILBOX_OR_REBASE + 1)
    ELSE KnownStates

\* directory D holds no repository, or one with an operation in progress
InitState ==
    /\ InitHandles
    /\ InitDisk
    /\ breach \in BOOLEAN
    /\ repostate \in (IF disk = "none" THEN {GIT_REPOSITORY_STATE_NONE}
                      ELSE EngineStates)
    /\ namespace = [p \in HandleIds |-> None]
    /\ submods = <<>>

NextState ==
    \/ \E path \in FsPaths : Open(path)
    \/ \E path \in FsPaths, bare \in BOOLEAN : Init_(path, bare)
    \/ \E h \in HandleIds : StateOp(h)
    \/ \E h \in HandleIds : DropRepo(h)

SpecState == InitState /\ [][NextState]_vars

\* ------------------------------------------- specification: bare or not
\* directory D is valid and writable; it holds no repository, or one that an
\* earlier run created; init and init_bare are the calls that create it
InitBare ==
    /\ InitHandles
    /\ InitGitdir
    /\ breach = FALSE
    /\ \/ InitDisk
       \/ /\ disk = "bare"
          /\ refs = TwoCommitRefs
          /\ commits = TwoCommits
          /\ index = EmptyIndex
          /\ workdir = EmptyIndex

NextBare ==
    \/ \E bare \in BOOLEAN : disk = "none" /\ Init_("D", bare)
    \/ Open("D")
    \/ \E h \in HandleIds : IsBare(h)
    \/ \E h \in HandleIds : Workdir(h)
    \/ \E h \in HandleIds : StateOp(h)
    \/ \E h \in HandleIds : IsEmpty(h)
    \/ \E h \in HandleIds : DropRepo(h)

SpecBare == InitBare /\ [][NextBare]_vars

\* ---------------------------------------------- specification: namespace
\* the bytes a namespace is made of: "a", the two bytes of U+00E9, and a byte
\* that no UTF-8 text holds
NsBytes == {97, 195, 169, 255}
MaxNsLen == 2
ByteStrings == UNION {[1..n -> NsBytes] : n \in 0..MaxNsLen}
CStrings == {b \o <<0>> : b \in ByteStrings}

\* directory D holds no repository and there is no handle, or it holds one
\* and the program has a Repository made by from_raw from an engine
\* repository that may have a namespace
InitNamespace ==
    /\ breach = FALSE
    /\ repostate = GIT_REPOSITORY_STATE_NONE
    /\ submods = <<>>
    /\ \/ /\ InitHandles
          /\ disk = "none"
          /\ refs = EmptyRefs
          /\ commits = EmptyCommits
          /\ index = EmptyIndex
          /\ workdir = EmptyIndex
          /\ namespace = [p \in HandleIds |-> None]
       \/ /\ InitOpen
          /\ disk = "normal"
          /\ refs = TwoCommitRefs
          /\ commits = TwoCommits
          /\ index = TreeContent(12)
          /\ workdir = TreeContent(12)
          /\ \E ns \in {None} \cup {Some(c) : c \in CStrings} :
                namespace = [p \in HandleIds |-> IF p = 1 THEN ns ELSE None]

NextNamespace ==
    \/ \E bare \in BOOLEAN : Init_("D", bare)
    \/ Open("D")
    \/ \E h \in HandleIds : NamespaceBytes(h)
    \/ \E h \in HandleIds : Namespace(h)
    \/ \E h \in HandleIds : DropRepo(h)

SpecNamespace == InitNamespace /\ [][NextNamespace]_vars

\* --------------------------------------------- specification: submodules
MaxSubmods == 2
SubmoduleLists ==
    {q \in UNION {[1..n -> SubmoduleNames] : n \in 0..MaxSubmods} :
        \A i, j \in DOMAIN q : q[i] = q[j] => i = j}

\* one Repository is open on a repository with some submodules; the engine
\* may or may not keep its promise that their names can be looked up
InitSubmodules ==
    /\ InitOpen
    /\ disk = "normal"
    /\ refs = TwoCommitRefs
    /\ commits = TwoCommits
    /\ index = TreeContent(12)
    /\ workdir = TreeContent(12)
    /\ repostate = GIT_REPOSITORY_STATE_NONE
    /\ namespace = [p \in HandleIds |-> None]
    /\ submods \in SubmoduleLists
    /\ breach \in BOOLEAN

NextSubmodules ==
    \/ \E h \in HandleIds : Submodules(h)
    \/ \E h \in HandleIds : DropRepo(h)

SpecSubmodules == InitSubmodules /\ [][NextSubmodules]_vars

TypeOK ==
    /\ disk \in {"none", "normal", "bare"}
    /\ \A h \in HandleIds : repos[h].st \in {"none", "live", "dropped"}
    /\ nextChild \in 0..MaxChildren
    /\ last.out \in {"none", "ok", "err", "abort"}

\* ------------------------------------------------------------------ claims
FactoryOps ==
    {"open", "init", "init_bare", "revparse", "revparse_single", "head",
     "index", "config", "find_blob", "find_commit", "find_reference",
     "branch", "reference", "reference_symbolic"}

\* C1: a call of a factory operation ends in exactly one of two ways: Ok with
\* a handle that wraps a non-null pointer, or Err with no handle.
C1_TwoOutcomes ==
    last.op \in FactoryOps =>
        \/ last.out = "ok" /\ last.val # NoChild /\ last.val.raw # NullPtr
        \/ last.out = "err" /\ last.val = NoChild

\* C2: the engine repository of a Repository handle is released exactly once,
\* at destruction: not while the handle is alive, not twice, and a pointer is
\* released only for a handle that was destroyed.
C2_ReleasedOnce ==
    /\ \A h \in HandleIds :
          /\ repos[h].st = "live" /\ repos[h].raw # NullPtr
                => freeCalls[repos[h].raw] = 0
          /\ repos[h].st = "dropped" /\ repos[h].raw # NullPtr
                => freeCalls[repos[h].raw] = 1
    /\ \A p \in DOMAIN freeCalls :
          freeCalls[p] > 0 =>
              \E h \in HandleIds : repos[h].st = "dropped" /\ repos[h].raw = p
    /\ \A h, g \in HandleIds :
          h # g /\ repos[h].st # "none" /\ repos[g].st # "none"
               /\ repos[h].raw # NullPtr => repos[h].raw # repos[g].raw

\* one handle was destroyed and released once while another is still alive
\* and in use
C2_Witness ==
    /\ \E h, g \in HandleIds :
          /\ repos[h].st = "dropped" /\ freeCalls[repos[h].raw] = 1
          /\ repos[g].st = "live" /\ freeCalls[repos[g].raw] = 0
    /\ last.op = "find_blob"

FallibleOps == FactoryOps

\* C4: when the engine reports success and leaves the output pointer null,
\* the operation aborts.
C4_NullOutputAborts ==
    (last.op \in FallibleOps /\ eng.rc = GIT_OK /\ eng.out = NullPtr)
        => last.out = "abort"

\* C5: revparse gives Ok with both endpoints whenever the engine resolved the
\* spec as a range; it gives Err only when the engine failed; it aborts only
\* when flags and pointers do not fit together.
C5_RangeReturnsRevspec ==
    last.op = "revparse" =>
        /\ (eng.rc = GIT_OK /\ ~contains(eng.flags, GIT_REVPARSE_SINGLE)
                /\ eng.out # NullPtr /\ eng.to # NullPtr)
              => /\ last.out = "ok"
                 /\ last.val.raw = eng.out
                 /\ last.val.to = <<eng.to>>
        /\ last.out = "err" => eng.rc < 0
        /\ last.out = "abort" =>
              \/ contains(eng.flags, GIT_REVPARSE_SINGLE) /\ eng.to # NullPtr
              \/ ~contains(eng.flags, GIT_REVPARSE_SINGLE)
                    /\ (eng.out = NullPtr \/ eng.to = NullPtr)

\* the object ids revparse_single(spec) can return in the current state
SingleIds(h, spec) ==
    {git_object_id(revparse_single(h, r).val.raw) :
        r \in {x \in git_revparse_single(spec) : revparse_single(h, x).out = "ok"}}

\* C6: when the engine resolves the spec to a single target, revparse gives a
\* Revspec whose from is present, whose to is absent and whose from has the
\* object id revparse_single gives for the same spec; when the engine sets
\* the single flag together with a to pointer, revparse aborts.
C6_SingleTarget ==
    last.op = "revparse" =>
        /\ (eng.rc = GIT_OK /\ contains(eng.flags, GIT_REVPARSE_SINGLE)
                /\ eng.out # NullPtr /\ eng.to = NullPtr)
              => /\ last.out = "ok"
                 /\ last.val.kind = "Revspec"
                 /\ last.val.raw # NullPtr
                 /\ last.val.to = <<>>
                 /\ SingleIds(last.val.origin, last.args.spec)
                        = {git_object_id(last.val.raw)}
        /\ (eng.rc = GIT_OK /\ contains(eng.flags, GIT_REVPARSE_SINGLE)
                /\ eng.to # NullPtr)
              => last.out = "abort"

\* revparse("HEAD") returned a Revspec for a head that resolves
C6_Witness ==
    /\ last.op = "revparse" /\ last.out = "ok" /\ last.args.spec = "HEAD"
    /\ Resolved("HEAD") # 0
    /\ git_object_id(last.val.raw) = Resolved("HEAD")

\* after commit(Some(ref), .., parents) with ref at the first parent
C7_Post ==
    /\ last.out = "ok"
    /\ last.oid # last.args.oids[1]
    /\ \A r \in git_commit_lookup(last.oid) : find_commit(1, r).out = "ok"
    /\ \A o \in refname_to_id(last.args.name) : o.out = "ok" /\ o.oid = last.oid

\* after commit(None, ..)
C7_PostNoRef ==
    /\ last.out = "ok"
    /\ \A r \in git_commit_lookup(last.oid) : find_commit(1, r).out = "ok"

\* C7: commit(Some(ref), .., parents) with ref pointing at the first parent
\* returns an id C2 other than the parent, and in the state after the call
\* find_commit(C2) succeeds and refname_to_id(ref) is C2; commit(None, ..)
\* stores the commit and changes no reference.
C7_CommitAdvancesRef ==
    [][ /\ (last'.op = "commit" /\ last'.args.name # NoName
                /\ last'.args.oids # <<>>
                /\ Resolved(last'.args.name) = last'.args.oids[1])
              => C7_Post'
        /\ (last'.op = "commit" /\ last'.args.name = NoName)
              => C7_PostNoRef' /\ refs' = refs ]_vars

\* commit(Some("HEAD"), .., [C1, ..]) returned C2 and HEAD resolves to C2
C7_Witness ==
    /\ last.op = "commit" /\ last.out = "ok" /\ last.args.name = "HEAD"
    /\ last.args.oids # <<>>
    /\ Resolved("HEAD") = last.oid
    /\ commits[last.oid].parents = last.args.oids

\* C8: commit(Some(ref), .., parents) with ref existing and pointing elsewhere
\* than the first parent returns Err and leaves every reference as it was.
C8_NonFastForward ==
    [][ (last'.op = "commit" /\ last'.args.name # NoName
            /\ last'.args.oids # <<>>
            /\ Resolved(last'.args.name) # 0
            /\ Resolved(last'.args.name) # last'.args.oids[1])
          => last'.out = "err" /\ refs' = refs ]_vars

\* commit(Some("HEAD"), .., [C0, ..]) failed and HEAD is not at C0
C8_Witness ==
    /\ last.op = "commit" /\ last.out = "err" /\ last.args.name = "HEAD"
    /\ last.args.oids # <<>>
    /\ Resolved("HEAD") # 0
    /\ Resolved("HEAD") # last.args.oids[1]

CreateOps == {"branch", "reference", "reference_symbolic"}

\* what the call asked the name to point at
NewTarget(call) ==
    IF call.op = "reference_symbolic" THEN SymbolicRef(call.args.target)
    ELSE DirectRef(call.args.oids[1])

\* C9: branch / reference / reference_symbolic under a name that exists:
\* without force the call returns the "exists" Err and changes no reference;
\* with force it returns Ok and the name points at the new target.
C9_ExistingName ==
    [][ (last'.op \in CreateOps /\ refs[last'.args.name] # NoRef
            /\ (last'.op # "reference_symbolic" => HasCommit(last'.args.oids[1])))
          => IF last'.args.force
             THEN /\ last'.out = "ok"
                  /\ refs' = [refs EXCEPT ![last'.args.name] = NewTarget(last')]
             ELSE /\ last'.out = "err"
                  /\ eng'.rc = GIT_EEXISTS
                  /\ refs' = refs ]_vars

\* branch without force failed on a name that points somewhere else
C9_Witness ==
    /\ last.op = "branch" /\ ~last.args.force /\ last.out = "err"
    /\ eng.rc = GIT_EEXISTS
    /\ refs[last.args.name] # NoRef
    /\ refs[last.args.name] # NewTarget(last)

\* C10: reset moves head to the target; Soft leaves index and working tree as
\* they were; Mixed replaces the index with the tree of the target and leaves
\* the working tree; Hard also makes the working tree match that tree, and
\* leaves the files that are neither tracked nor in the tree as they were.
C10_ResetLayers ==
    [][ (last'.op = "reset" /\ last'.out = "ok") =>
          LET t == last'.args.oids[1]
              k == last'.args.kind
              tree == TreeContent(commits[t].tree)
          IN /\ ResolveRef(refs', "HEAD", MaxNesting) = t
             /\ k = "Soft" => index' = index /\ workdir' = workdir
             /\ k = "Mixed" => index' = tree /\ workdir' = workdir
             /\ k = "Hard" =>
                   /\ index' = tree
                   /\ \A f \in Files :
                         /\ tree[f] # 0 => workdir'[f] = tree[f]
                         /\ (tree[f] = 0 /\ index[f] # 0) => workdir'[f] = 0
                         /\ (tree[f] = 0 /\ index[f] = 0) => workdir'[f] = workdir[f]
      ]_vars

\* a hard reset to the first commit: head, index and the tracked files follow
\* the target, the untracked file is still there
C10_Witness ==
    /\ last.op = "reset" /\ last.out = "ok" /\ last.args.kind = "Hard"
    /\ last.args.oids = <<1>>
    /\ Resolved("HEAD") = 1
    /\ index = TreeContent(11)
    /\ workdir["a"] = 1 /\ workdir["b"] = 0 /\ workdir["junk"] = 1

\* C11: reset_default changes only the index entries of the listed paths and
\* leaves the other entries, the references and the working tree as they
\* were; with a target the listed entries get the content of the tree of the
\* target, without a target they are removed; with no path the index stays.
C11_ResetDefaultFrame ==
    [][ (last'.op = "reset_default" /\ last'.out = "ok") =>
          LET ps == last'.args.paths
              t == last'.args.oids
          IN /\ refs' = refs
             /\ workdir' = workdir
             /\ \A f \in Files \ ps : index'[f] = index[f]
             /\ \A f \in ps :
                   index'[f] = IF t = <<>> THEN 0
                               ELSE TreeContent(commits[t[1]].tree)[f]
             /\ ps = {} => index' = index
      ]_vars

\* reset_default(None, ["a"]) on a head whose tree has "a": the entry is
\* gone, the entry of "b" is still there
C11_Witness ==
    /\ last.op = "reset_default" /\ last.out = "ok"
    /\ last.args.oids = <<>> /\ last.args.paths = {"a"}
    /\ Resolved("HEAD") # 0
    /\ TreeContent(commits[Resolved("HEAD")].tree)["a"] # 0
    /\ index["a"] = 0 /\ index["b"] # 0

\* the RepositoryState of each number of the engine, in the order of the enum
RepositoryStates ==
    <<"Clean", "Merge", "Revert", "CherryPick", "Bisect", "Rebase",
      "RebaseInteractive", "RebaseMerge", "ApplyMailbox", "ApplyMailboxOrRebase">>

\* C12: state gives, for each of the ten numbers of the engine, the
\* RepositoryState of that number, a different one for each number; any
\* other number aborts; a repository fresh from init is Clean.
C12_StateMapping ==
    /\ \A s, t \in KnownStates : state(s) = state(t) => s = t
    /\ last.op = "state" =>
          /\ eng.rc \in KnownStates =>
                last.out = "ok"
                /\ last.val = RepositoryState(RepositoryStates[eng.rc + 1])
          /\ eng.rc \notin KnownStates => last.out = "abort"
          /\ commits = EmptyCommits =>
                last.out = "ok" /\ last.val = RepositoryState("Clean")

\* state() answered on a repository that init created in this run
C12_Witness ==
    /\ last.op = "state" /\ last.out = "ok" /\ last.val = RepositoryState("Clean")
    /\ commits = EmptyCommits /\ disk # "none"
    /\ \E h \in HandleIds : repos[h].st = "live"

\* C13: init and init_bare on a directory that holds no repository succeed
\* and create it normal or bare; the mode stays; open of the directory
\* succeeds; on every handle, from the creating call or from a later open,
\* is_bare answers whether the repository is bare and workdir is None
\* exactly for a bare one.
C13_BareMode ==
    [][ /\ disk # "none" => disk' = disk
        /\ (last'.op \in {"init", "init_bare"} /\ disk = "none") =>
              /\ last'.out = "ok"
              /\ disk' = IF last'.op = "init_bare" THEN "bare" ELSE "normal"
        /\ (last'.op = "open" /\ disk # "none") => last'.out = "ok"
        /\ last'.op = "is_bare" => last'.val = Bool(disk' = "bare")
        /\ last'.op = "workdir" => (last'.val = None <=> disk' = "bare")
      ]_vars

\* after init_bare and open, is_bare answers true on the handle open returned
C13_Witness ==
    /\ last.op = "is_bare" /\ last.val = Bool(TRUE) /\ last.args.self = 2
    /\ repos[1].st = "live" /\ repos[2].st = "live"
    /\ commits = EmptyCommits

\* the namespace of the engine repository the last call was made on, without
\* the NUL that ends it
C14_EngineBytes ==
    LET c == namespace[repos[last.args.self].raw]
    IN IF c.some THEN Some(SubSeq(c.val, 1, Len(c.val) - 1)) ELSE None

\* C14: without a namespace both accessors give None; with one,
\* namespace_bytes gives Some of its bytes, and namespace gives Some of the
\* same bytes when they are UTF-8 and None when they are not; neither fails;
\* a repository fresh from init_bare has no namespace.
C14_NamespaceAgree ==
    /\ is_utf8(<<97>>) /\ is_utf8(<<195, 169>>) /\ is_utf8(<<>>)
    /\ ~is_utf8(<<255>>) /\ ~is_utf8(<<195>>) /\ ~is_utf8(<<195, 97>>)
    /\ ~is_utf8(<<169>>)
    /\ last.op = "namespace_bytes" =>
          last.out = "ok" /\ last.val = C14_EngineBytes
    /\ last.op = "namespace" =>
          /\ last.out = "ok"
          /\ ~C14_EngineBytes.some => last.val = None
          /\ (C14_EngineBytes.some /\ is_utf8(C14_EngineBytes.val)) =>
                last.val = C14_EngineBytes
          /\ (C14_EngineBytes.some /\ ~is_utf8(C14_EngineBytes.val)) =>
                last.val = None
    /\ (last.op \in {"namespace", "namespace_bytes"} /\ commits = EmptyCommits) =>
          last.val = None

\* namespace() gave None for a namespace whose bytes are not UTF-8
C14_Witness ==
    /\ last.op = "namespace" /\ last.out = "ok" /\ last.val = None
    /\ C14_EngineBytes = Some(<<195, 255>>)

\* C15: when submodules returns Ok the enumeration has ended, and the list
\* has one Submodule for each call of the callback, in the order of the
\* calls; a lookup that fails for an enumerated name aborts; when the
\* enumeration fails the call returns Err and no list.
C15_CollectInOrder ==
    last.op = "submodules" =>
        /\ last.out = "ok" =>
              /\ eng.rc = GIT_OK
              /\ eng.fired = submods
              /\ Len(last.val.list) = Len(eng.fired)
              /\ \A i \in DOMAIN eng.fired :
                    /\ last.val.list[i].kind = "Submodule"
                    /\ last.val.list[i].raw = SubPtr(eng.fired[i])
        /\ eng.lookup # 0 => last.out = "abort"
        /\ (eng.lookup = 0 /\ eng.rc < 0) =>
              last.out = "err" /\ last.val = NoChild
        /\ last.out = "abort" => eng.lookup # 0

\* two submodules came back in the order the engine walked them
C15_Witness ==
    /\ last.op = "submodules" /\ last.out = "ok"
    /\ submods = <<"libb", "liba">>
    /\ Len(last.val.list) = 2
    /\ last.val.list[1].raw = SubPtr("libb")
    /\ last.val.list[2].raw = SubPtr("liba")

====
